---- MODULE Spec2Model ----
(***************************************************************************)
(* Canvas <-> Yjs synchronisation of CanvasSyncProvider                    *)
(* (canvas-sync-context, kept in right-click-menu.tsx after "=== temp ===").*)
(*                                                                         *)
(* One record per replica holds the refs, React state, pending timers and  *)
(* pending promises of one mounted CanvasSyncProvider.  Every handler of   *)
(* the source is an operator from replica state to replica state, so that  *)
(* the synchronous call chains of the source (canvas.add -> object:added   *)
(* -> handleAdd -> updateYjsObject -> transact -> objectObserver) are      *)
(* composed exactly as the source composes them.  One step of Next is one  *)
(* task of the JavaScript event loop: it runs to completion.               *)
(***************************************************************************)
EXTENDS Integers, Sequences, FiniteSets, TLC

VARIABLES replica, remoteLeft

vars == <<replica, remoteLeft>>

-----------------------------------------------------------------------------
(* Bounds and value domains                                                *)

MaxUser == 2        \* events a user raises on one replica
MaxRemote == 2      \* remote transactions that reach the replicas
MaxHandles == 3     \* live fabric objects one replica holds at a time
MaxPairUser == 1    \* the same budgets in the two-replica specification
MaxPairRemote == 1
MaxLiveUser == 1       \* as MaxUser, under fairness
MaxLiveRemote == 2     \* as MaxRemote, under fairness

None == "none"
NoHandle == 0
LOCAL_ORIGIN == "local_canvas_sync"
REMOTE_ORIGIN == "remote_peer"

Replicas == {"r1", "r2"}
Ids == {"a", "b"}
Handles == 1..MaxHandles
Lefts == {0, 1}
Dims == {"d0", "d1"}
Presets == {"p0", "p1"}

\* The type discriminator of an object never changes during its life, so it
\* is a function of the id.  Only materialisation reads it: enlivenObjects
\* settles in microtasks for a plain shape and after a resource load (a
\* later task) for an image.
TypeOf(id) == IF id = "b" THEN "image" ELSE "rect"

\* fabric fills: a flat color, a fabric.Gradient, a fabric.Pattern, or a
\* plain wrapper object that was never decoded ("raw").
Color(c) == [kind |-> "color", payload |-> <<c>>]
Gradient(g) == [kind |-> "gradient", payload |-> <<g>>]
Pattern(n, c) == [kind |-> "pattern", payload |-> <<n, c>>]
DefaultFill == Color("black")
UserFills == {Color("red"), Gradient("g1"), Pattern("hatch", "green")}

\* partial functions (JavaScript Map / Y.Map)
Put(f, k, v) == [y \in (DOMAIN f) \cup {k} |-> IF y = k THEN v ELSE f[y]]
Del(f, k) == [y \in (DOMAIN f) \ {k} |-> f[y]]
Has(f, k) == k \in DOMAIN f
Range(f) == {f[y] : y \in DOMAIN f}
EmptyMap == << >>

-----------------------------------------------------------------------------
(* Serialization: updateYjsObject lines 218-237                            *)

AbsentFill == [type |-> "absent", data |-> << >>]

EncodeFill(f) ==
  CASE f.kind = "gradient" -> [type |-> "gradient", data |-> f.payload]
    [] f.kind = "pattern" -> [type |-> "pattern", data |-> f.payload]
    [] f.kind = "raw" -> [type |-> f.payload[1], data |-> f.payload[2]]
    [] OTHER -> [type |-> "plain", data |-> f.payload]

ToRecord(o, objId) == [id |-> objId, left |-> o.left, fill |-> EncodeFill(o.fill)]

\* The fill enlivenObjects / existingObj.set gives an object from the fill
\* slot of objData as objectObserver left it: a Gradient built at line 490,
\* a flat color, or no fill key at all (deleted at line 502).
FillFromData(rf, old) ==
  CASE rf.type = "gradient" -> Gradient(rf.data[1])
    [] rf.type = "plain" -> Color(rf.data[1])
    [] OTHER -> old

\* canvas.loadFromJSON is handed the stored records as they are: a wrapper
\* {type, gradient|pattern} stays the plain object it is.
FillFromStored(rf) ==
  IF rf.type = "plain" THEN Color(rf.data[1])
  ELSE [kind |-> "raw", payload |-> <<rf.type, rf.data>>]

-----------------------------------------------------------------------------
(* Step bookkeeping: what the current task did (reset when a task starts)  *)

NoTx == [kind |-> "none", id |-> None,
         rec |-> [id |-> None, left |-> 0, fill |-> [type |-> "absent", data |-> << >>]],
         dimensions |-> None, preset |-> None]

NoStep == [writes |-> << >>, applies |-> << >>, echo |-> FALSE,
           observed |-> FALSE, handled |-> {}, settingsKeys |-> {},
           fromRemote |-> {}, tx |-> NoTx]

Begin(s) == [s EXCEPT !.last = NoStep]

NoteWrite(s, id, rec) ==
  [s EXCEPT !.last.writes = Append(@, [id |-> id, rec |-> rec]),
            !.modPending = @ \ {id}]

\* g is what the applier was working from: the record it read from the
\* objects table and how the texture of a pattern fill resolved.
NoteApply(s, id, h, path, fill, g) ==
  [s EXCEPT !.last.applies =
     Append(@, [id |-> id, h |-> h, path |-> path, fill |-> fill,
                rec |-> g.rec, resolved |-> g.resolved])]

-----------------------------------------------------------------------------
(* Timers (setTimeout 0 fire in the order they were set)                   *)

ReleaseTimer(id) == [kind |-> "release", id |-> id]
FlagTimer == [kind |-> "flag", id |-> None]
SettingsFlagTimer == [kind |-> "settingsFlag", id |-> None]

SetTimeout(s, t) == [s EXCEPT !.timers = Append(@, t)]

\* A fabric object lives while the scene, the identity registry or the
\* pending debounced call refers to it.
Collect(s) ==
  [s EXCEPT !.objs = [h \in (DOMAIN s.objs) \cap
                              (s.scene \cup Range(s.fabricObjectsRef) \cup {s.debounced})
                        |-> s.objs[h]]]

FreeHandles(s) == Handles \ DOMAIN s.objs

-----------------------------------------------------------------------------
(* Remote-change applier for objects: objectObserver, applyObjectUpdate    *)

NoFill == [kind |-> "undefined", payload |-> << >>]

RECURSIVE ObjectObserver(_, _, _)

\* yDoc.transact(fn, LOCAL_ORIGIN) on the objects map: the map changes and
\* the attached observer is called before transact returns.
LocalTransactObjects(s, newMap, changes) ==
  LET s1 == [s EXCEPT !.objectsMap = newMap]
  IN IF s1.cInitialized /\ changes # << >>
     THEN ObjectObserver(s1, LOCAL_ORIGIN, changes)
     ELSE s1

\* lines 195-250.  u is the value uuidv4() returns when the object has no id.
UpdateYjsObject(s, h, u) ==
  IF s.loadPhase = "idle" THEN s
  ELSE
    LET objId == IF s.objs[h].id = None THEN u ELSE s.objs[h].id
        s0 == [s EXCEPT !.objs[h].id = objId]
    IN IF objId \in s0.processingQueue THEN s0
       ELSE
         LET s1 == [s0 EXCEPT !.processingQueue = @ \cup {objId},
                              !.isLocalChange = TRUE,
                              !.fabricObjectsRef = Put(@, objId, h)]
             jsonData == ToRecord(s1.objs[h], objId)
             s2 == LocalTransactObjects(
                     NoteWrite(s1, objId, jsonData),
                     Put(s1.objectsMap, objId, jsonData),
                     <<[id |-> objId,
                        action |-> IF Has(s1.objectsMap, objId)
                                   THEN "update" ELSE "add"]>>)
         IN SetTimeout(s2, ReleaseTimer(objId))

\* lines 259-296
DeleteYjsObject(s, h) ==
  LET objId == s.objs[h].id
  IN IF objId = None \/ s.loadPhase = "idle" THEN s
     ELSE IF objId \in s.processingQueue THEN s
     ELSE
       LET s1 == [s EXCEPT !.processingQueue = @ \cup {objId},
                           !.isLocalChange = TRUE,
                           !.fabricObjectsRef = Del(@, objId)]
           s2 == IF Has(s1.objectsMap, objId)
                 THEN LocalTransactObjects(
                        NoteWrite(s1, objId, [id |-> None, left |-> 0, fill |-> AbsentFill]),
                        Del(s1.objectsMap, objId),
                        <<[id |-> objId, action |-> "delete"]>>)
                 ELSE s1
       IN SetTimeout(s2, ReleaseTimer(objId))

\* lines 616-631
HandleAdd(s, h, u) ==
  IF s.isLocalChange THEN s
  ELSE UpdateYjsObject(s, h, u)

\* lines 526-544: the .then of enlivenObjects
Materialize(s, id, objData, fill, g) ==
  LET h == CHOOSE x \in FreeHandles(s) : \A y \in FreeHandles(s) : x <= y
      o == [id |-> id, left |-> objData.left,
            fill |-> IF fill = NoFill
                     THEN FillFromData(objData.fill, DefaultFill)
                     ELSE fill]
      s1 == [s EXCEPT !.objs = Put(@, h, o), !.scene = @ \cup {h}]
      s2 == HandleAdd(s1, h, None)               \* canvas.add fires object:added
      s3 == [s2 EXCEPT !.fabricObjectsRef = Put(@, id, h)]
  IN NoteApply(s3, id, h, "materialize", fill, g)

\* lines 519-546
ApplyObjectUpdate(s, id, objData, fill, g) ==
  IF Has(s.fabricObjectsRef, id)
  THEN LET h == s.fabricObjectsRef[id]
           o == s.objs[h]
           patched == [o EXCEPT !.id = objData.id, !.left = objData.left,
                                !.fill = FillFromData(objData.fill, o.fill)]
       IN NoteApply([s EXCEPT !.objs[h] = patched], id, h, "patch", fill, g)
  ELSE IF TypeOf(id) = "image"
       THEN [s EXCEPT !.tasks = Append(@, [kind |-> "enliven", id |-> id,
                                           objData |-> objData, fill |-> fill,
                                           g |-> g])]
       ELSE Materialize(s, id, objData, fill, g)

\* lines 475-515: the async callback of forEach, up to its first await
ObserveKey(s, id, action) ==
  IF id \in s.processingQueue THEN s
  ELSE
    LET s1 == [s EXCEPT !.processingQueue = @ \cup {id}, !.isLocalChange = TRUE,
                        !.last.handled = @ \cup {id}]
    IN IF action = "delete" THEN SetTimeout(s1, ReleaseTimer(id))
       ELSE IF ~Has(s1.objectsMap, id) THEN SetTimeout(s1, ReleaseTimer(id))
       ELSE
         LET objData == s1.objectsMap[id]
         IN IF objData.fill.type = "pattern"
            THEN [s1 EXCEPT !.tasks = Append(@, [kind |-> "patternUrl", id |-> id,
                                                 objData |-> objData, fill |-> NoFill,
                                                 g |-> [rec |-> objData,
                                                        resolved |-> "pending"]])]
            ELSE SetTimeout(ApplyObjectUpdate(s1, id, objData, NoFill,
                                              [rec |-> objData, resolved |-> "n/a"]),
                            ReleaseTimer(id))

RECURSIVE ObserveKeys(_, _)
ObserveKeys(s, changes) ==
  IF changes = << >> THEN s
  ELSE ObserveKeys(ObserveKey(s, Head(changes).id, Head(changes).action),
                   Tail(changes))

\* the guard without its origin and flag tests
ObserverIgnores_LoadingOnly(s, origin) == s.isLoadingInitialState

\* lines 467-473
ObserverIgnores(s, origin) ==
  s.isLoadingInitialState \/ origin = LOCAL_ORIGIN \/ s.isLocalChange

\* what an observer call may touch besides the step bookkeeping
Touched(s, t) ==
  \/ s.scene # t.scene \/ s.objs # t.objs
  \/ s.fabricObjectsRef # t.fabricObjectsRef
  \/ s.processingQueue # t.processingQueue
  \/ s.isLocalChange # t.isLocalChange
  \/ s.isLoadingInitialState # t.isLoadingInitialState
  \/ s.isYjsSettingsUpdate # t.isYjsSettingsUpdate
  \/ s.timers # t.timers \/ s.tasks # t.tasks

\* lines 463-516.  last.observed: the observer was called for a transaction
\* of local origin; last.echo: that call changed something.
ObjectObserver(s, origin, changes) ==
  LET t == IF ObserverIgnores(s, origin) THEN s ELSE ObserveKeys(s, changes)
  IN IF origin = LOCAL_ORIGIN
     THEN [t EXCEPT !.last.observed = TRUE,
                    !.last.echo = @ \/ Touched(s, t) \/ t.last.handled # s.last.handled]
     ELSE t

\* lines 643-661
RECURSIVE SeqOfSet(_)
SeqOfSet(S) ==
  IF S = {} THEN << >>
  ELSE LET x == CHOOSE y \in S : TRUE IN <<x>> \o SeqOfSet(S \ {x})

RECURSIVE NoteWrites(_, _)
NoteWrites(s, ids) ==
  IF ids = << >> THEN s
  ELSE NoteWrites(NoteWrite(s, Head(ids), [id |-> None, left |-> 0, fill |-> AbsentFill]),
                  Tail(ids))

HandleClear(s) ==
  IF s.isLocalChange THEN s
  ELSE
    LET keys == SeqOfSet(DOMAIN s.objectsMap)
        s1 == [s EXCEPT !.isLocalChange = TRUE, !.fabricObjectsRef = EmptyMap]
        s2 == LocalTransactObjects(
                NoteWrites(s1, keys), EmptyMap,
                [i \in 1..Len(keys) |-> [id |-> keys[i], action |-> "delete"]])
    IN SetTimeout(s2, FlagTimer)

\* lines 611-614 with the lodash debounce of lines 252-257: one debounced
\* function for every object; a call replaces the pending call's argument
\* and restarts the 300 ms wait.
HandleModify(s, h) ==
  IF s.isLocalChange THEN s
  ELSE [s EXCEPT !.debounced = h]

\* lines 633-636
HandleRemove(s, h) ==
  IF s.isLocalChange THEN s
  ELSE DeleteYjsObject(s, h)

-----------------------------------------------------------------------------
(* Settings sync                                                           *)

\* setDimensions is handed a new object: React re-renders whatever it holds.
SetDimensions(s, d) == [s EXCEPT !.dimensions = d, !.dimsDirty = TRUE]

SetPreset(s, p) == [s EXCEPT !.preset = p]

\* lines 298-347, called with {dimensions, preset}
UpdateYjsCanvasSettings(s, d, p) ==
  LET dimsChanged == d # None /\ d # s.prevDimensionsRef
      presetChanged == p # None /\ p # s.prevPresetRef
      s1 == [s EXCEPT !.prevDimensionsRef = IF dimsChanged THEN d ELSE @,
                      !.prevPresetRef = IF presetChanged THEN p ELSE @]
  IN IF ~(dimsChanged \/ presetChanged) THEN s1
     ELSE SetTimeout(
            [s1 EXCEPT !.isLocalChange = TRUE,
                       !.canvasMap = [dimensions |-> IF d # None THEN d ELSE @.dimensions,
                                      preset |-> IF p # None THEN p ELSE @.preset],
                       !.last.settingsKeys = {k \in {"dimensions", "preset"} :
                                                \/ k = "dimensions" /\ d # None
                                                \/ k = "preset" /\ p # None}],
            FlagTimer)

\* a test that takes every key as changed
KeyChanged_Always(keys, k) == TRUE

\* event.changes.keys.has(k), lines 562 and 574
KeyChanged(keys, k) == k \in keys

\* lines 548-586.  dimensions and preset are the values the closure captured
\* when the observers effect last ran (cDimensions, cPreset).
CanvasSettingsObserver(s, origin, keys) ==
  IF origin = LOCAL_ORIGIN \/ s.isLocalChange THEN s
  ELSE
    LET s1 == [s EXCEPT !.isYjsSettingsUpdate = TRUE]
        newDimensions == s1.canvasMap.dimensions
        s2 == IF KeyChanged(keys, "dimensions") /\ newDimensions # None
                 /\ newDimensions # s1.cDimensions
              THEN [SetDimensions(s1, newDimensions)
                      EXCEPT !.remoteSettings = @ \cup {"dimensions"}]
              ELSE s1
        newPreset == s2.canvasMap.preset
        s3 == IF KeyChanged(keys, "preset") /\ newPreset # None /\ newPreset # s2.cPreset
              THEN [SetPreset(s2, newPreset)
                      EXCEPT !.remoteSettings = @ \cup {"preset"}]
              ELSE s2
    IN SetTimeout(s3, SettingsFlagTimer)

\* lines 433-450
SettingsSyncEffect(s) ==
  IF ~s.initialized \/ s.isYjsSettingsUpdate
  THEN [s EXCEPT !.isYjsSettingsUpdate = FALSE]
  ELSE UpdateYjsCanvasSettings(s, s.dimensions, s.preset)

\* A commit is due when a dependency of the effects changed since the last.
RenderPending(s) ==
  s.dimsDirty \/ s.preset # s.cPreset \/ s.initialized # s.cInitialized

\* One React commit: the settings sync effect (lines 433-450), then the
\* observers effect (lines 453-605) and the handlers effect (lines 608-686),
\* which re-attach with the rendered dimensions, preset and initialized.
CommitEffects(s) ==
  LET s1 == SettingsSyncEffect(s)
  IN [s1 EXCEPT !.cDimensions = s1.dimensions, !.cPreset = s1.preset,
                !.cInitialized = s1.initialized, !.dimsDirty = FALSE,
                !.last.fromRemote = s.remoteSettings, !.remoteSettings = {}]

-----------------------------------------------------------------------------
(* Bootstrap: lines 350-430                                                *)

\* lines 354-399, up to the await of canvas.loadFromJSON
LoadInitialStateStart(s) ==
  LET d == s.canvasMap.dimensions
      p == s.canvasMap.preset
      s1 == [s EXCEPT !.isLoadingInitialState = TRUE, !.loadPhase = "loading"]
      s2 == IF d # None \/ p # None
            THEN [s1 EXCEPT !.isYjsSettingsUpdate = TRUE] ELSE s1
      s3 == IF d # None
            THEN [SetDimensions(s2, d) EXCEPT !.prevDimensionsRef = d] ELSE s2
      s4 == IF p # None
            THEN [SetPreset(s3, p) EXCEPT !.prevPresetRef = p] ELSE s3
  IN Collect([s4 EXCEPT !.scene = {}, !.fabricObjectsRef = EmptyMap,
                        !.loadData = s4.objectsMap])

RECURSIVE LoadObjects(_, _)
LoadObjects(s, recs) ==
  IF recs = << >> THEN s
  ELSE
    LET rec == Head(recs)
        h == CHOOSE x \in FreeHandles(s) : \A y \in FreeHandles(s) : x <= y
        o == [id |-> rec.id, left |-> rec.left, fill |-> FillFromStored(rec.fill)]
    IN LoadObjects([s EXCEPT !.objs = Put(@, h, o), !.scene = @ \cup {h},
                             !.fabricObjectsRef = Put(@, rec.id, h)],
                   Tail(recs))

\* lines 399-418: loadFromJSON settles; the scene then holds the loaded
\* objects and the callback registers each of them; finally.
LoadInitialStateFinish(s, ok) ==
  LET s1 == IF ok
            THEN LoadObjects(Collect([s EXCEPT !.scene = {}]),
                             [i \in 1..Len(SeqOfSet(DOMAIN s.loadData)) |->
                                s.loadData[SeqOfSet(DOMAIN s.loadData)[i]]])
            ELSE s
  IN [s1 EXCEPT !.isLoadingInitialState = FALSE, !.initialized = TRUE,
                !.loadPhase = "done", !.loadData = EmptyMap]

-----------------------------------------------------------------------------
(* Continuations of objectObserver's awaits                                *)

RemoveAt(q, i) == [j \in 1..(Len(q) - 1) |-> IF j < i THEN q[j] ELSE q[j + 1]]

\* line 494 settles: a blob URL, or null (lines 141, 154-157)
PatternUrlDone(s, i, ok) ==
  LET t == s.tasks[i]
  IN IF ok
     THEN [s EXCEPT !.tasks[i].kind = "loadImage"]
     ELSE LET s1 == [s EXCEPT !.tasks = RemoveAt(@, i)]
              objData == [t.objData EXCEPT !.fill = AbsentFill]
          IN SetTimeout(ApplyObjectUpdate(s1, t.id, objData, NoFill,
                                          [t.g EXCEPT !.resolved = "failed"]),
                        ReleaseTimer(t.id))

\* line 496 settles: the image, or a rejection that leaves the try block
ImageLoadDone(s, i, ok) ==
  LET t == s.tasks[i]
      s1 == [s EXCEPT !.tasks = RemoveAt(@, i)]
  IN IF ok
     THEN LET fill == Pattern(t.objData.fill.data[1], t.objData.fill.data[2])
              objData == [t.objData EXCEPT !.fill = AbsentFill]
          IN SetTimeout(ApplyObjectUpdate(s1, t.id, objData, fill,
                                          [t.g EXCEPT !.resolved = "ok"]),
                        ReleaseTimer(t.id))
     ELSE SetTimeout(s1, ReleaseTimer(t.id))

\* line 526 settles
EnlivenDone(s, i) ==
  LET t == s.tasks[i]
  IN Materialize([s EXCEPT !.tasks = RemoveAt(@, i)], t.id, t.objData, t.fill,
                 t.g)

\* every timer written like the one of handleClear, which resets the flag only
RunTimer_FlagOnly(s) ==
  [s EXCEPT !.timers = Tail(@), !.isLocalChange = FALSE]

\* lines 243-246, 289-292, 341-343, 510-513, 582-584, 657-659
RunTimer(s) ==
  LET t == Head(s.timers)
      s1 == [s EXCEPT !.timers = Tail(@)]
  IN CASE t.kind = "release" ->
            [s1 EXCEPT !.isLocalChange = FALSE, !.processingQueue = @ \ {t.id}]
       [] t.kind = "flag" -> [s1 EXCEPT !.isLocalChange = FALSE]
       [] OTHER -> [s1 EXCEPT !.isYjsSettingsUpdate = FALSE]

\* lines 253-255: the debounced call is made
RunDebounced(s, u) ==
  UpdateYjsObject([s EXCEPT !.debounced = NoHandle], s.debounced, u)

-----------------------------------------------------------------------------
(* State                                                                   *)

\* The state in which the init effect finds a replica: the document as the
\* provider synced it, and whatever the user drew before.
InitReplica(users, table, canvasMap, drawn) ==
  [ objectsMap |-> table,               \* Y.Map "fabricObjects" (this replica's copy)
    canvasMap |-> canvasMap,            \* Y.Map "fabricCanvas"
    objs |-> IF drawn                   \* live fabric objects by handle
             THEN Put(EmptyMap, 1, [id |-> None, left |-> 0, fill |-> Color("red")])
             ELSE EmptyMap,
    scene |-> IF drawn THEN {1} ELSE {},  \* canvas.getObjects()
    fabricObjectsRef |-> EmptyMap,
    processingQueue |-> {},
    isLocalChange |-> FALSE,
    isLoadingInitialState |-> FALSE,
    isYjsSettingsUpdate |-> FALSE,
    initialized |-> FALSE,
    loadPhase |-> "idle",               \* position of the init effect
    loadData |-> EmptyMap,              \* canvasJson.objects of the pending load
    dimensions |-> "d0",
    preset |-> "p0",
    prevDimensionsRef |-> "d0",
    prevPresetRef |-> "p0",
    dimsDirty |-> FALSE,
    cDimensions |-> "d0",               \* values the attached closures captured
    cPreset |-> "p0",
    cInitialized |-> FALSE,
    timers |-> << >>,
    debounced |-> NoHandle,
    tasks |-> << >>,                    \* pending promises of the applier
    userLeft |-> users,
    remoteSettings |-> {},              \* keys the settings observer set and no commit rendered yet
    modPending |-> {},                  \* ids whose object:modified was taken and not written since
    last |-> NoStep ]

StoredPattern ==
  ToRecord([left |-> 1, fill |-> Pattern("hatch", "green")], "a")

\* a new project, before anybody drew or set anything
EmptyDoc == [table |-> EmptyMap, canvasMap |-> [dimensions |-> None, preset |-> None]]

InitDocs ==
  {EmptyDoc,
   [table |-> Put(EmptyMap, "a", StoredPattern),
    canvasMap |-> [dimensions |-> "d1", preset |-> None]]}

Init ==
  /\ \E doc \in InitDocs : \E drawn \in BOOLEAN :
       replica = [r \in Replicas |->
                    InitReplica(MaxUser, doc.table, doc.canvasMap, drawn)]
  /\ remoteLeft = MaxRemote

\* two replicas open a new project
InitPair ==
  /\ replica = [r \in Replicas |->
                  InitReplica(MaxPairUser, EmptyDoc.table, EmptyDoc.canvasMap, FALSE)]
  /\ remoteLeft = MaxPairRemote

ObjIds(s) == {s.objs[h].id : h \in DOMAIN s.objs}

KnownIds(s) ==
  (DOMAIN s.objectsMap) \cup (DOMAIN s.fabricObjectsRef) \cup ObjIds(s)
    \cup s.processingQueue \cup s.modPending
    \cup {s.tasks[i].id : i \in 1..Len(s.tasks)}
    \cup {s.timers[i].id : i \in 1..Len(s.timers)}
    \cup (DOMAIN s.loadData)

\* uuidv4() returns an id nobody holds.
FreshIds == Ids \ UNION {KnownIds(replica[q]) : q \in Replicas}

Uuid(needed) == IF needed THEN FreshIds ELSE {None}

Step(r, s) ==
  /\ replica' = [replica EXCEPT ![r] = Collect(s)]
  /\ UNCHANGED remoteLeft

St(r) == Begin(replica[r])

\* listeners that attach without waiting for initialized
Attached_Unguarded(s) == TRUE

\* the observers effect and the handlers effect return early until the
\* rendered initialized is true (lines 454-460, 609)
Attached(s) == s.cInitialized

Started(r) == replica[r].loadPhase # "idle"

-----------------------------------------------------------------------------
(* Tasks of the event loop                                                 *)

\* the init effect (lines 350-358, 421) once useYjs reports the document
StartInit(r) ==
  /\ replica[r].loadPhase = "idle"
  /\ Step(r, LoadInitialStateStart(St(r)))

LoadFinish(r) ==
  /\ replica[r].loadPhase = "loading"
  /\ \E ok \in BOOLEAN : Step(r, LoadInitialStateFinish(St(r), ok))

RunEffects(r) ==
  /\ RenderPending(replica[r])
  /\ Step(r, CommitEffects(St(r)))

Spend(s) == [s EXCEPT !.userLeft = @ - 1]

\* The scene is bounded: a new object fits when a handle is free for it and
\* for the object of every promise still pending.
Room(s) == Cardinality(FreeHandles(s)) > Len(s.tasks)

\* canvas.add by the user: object:added
UserAdd(r) ==
  /\ Started(r)
  /\ replica[r].userLeft > 0
  /\ Room(replica[r])
  /\ LET s == Spend(St(r))
         h == CHOOSE x \in FreeHandles(s) : \A y \in FreeHandles(s) : x <= y
         s1 == [s EXCEPT !.objs = Put(@, h, [id |-> None, left |-> 0,
                                             fill |-> Color("red")]),
                         !.scene = @ \cup {h}]
     IN \E u \in Uuid(Attached(s1) /\ ~s1.isLocalChange) :
          Step(r, IF Attached(s1) THEN HandleAdd(s1, h, u) ELSE s1)

\* free drawing: object:added, then path:created (lines 664, 667)
UserDrawPath(r) ==
  /\ Started(r)
  /\ replica[r].userLeft > 0
  /\ Room(replica[r])
  /\ Attached(replica[r])
  /\ LET s == Spend(St(r))
         h == CHOOSE x \in FreeHandles(s) : \A y \in FreeHandles(s) : x <= y
         s1 == [s EXCEPT !.objs = Put(@, h, [id |-> None, left |-> 0,
                                             fill |-> Color("red")]),
                         !.scene = @ \cup {h}]
     IN \E u \in Uuid(~s1.isLocalChange) :
          Step(r, HandleAdd(HandleAdd(s1, h, u), h, u))

\* the user finishes a move: object:modified
UserModify(r) ==
  /\ Started(r)
  /\ replica[r].userLeft > 0
  /\ \E h \in replica[r].scene : \E l \in Lefts \ {replica[r].objs[h].left} :
       LET s == Spend(St(r))
           s1 == [s EXCEPT !.objs[h].left = l,
                           !.modPending = IF /\ Attached(s)
                                             /\ ~s.isLocalChange
                                             /\ s.objs[h].id # None
                                          THEN @ \cup {s.objs[h].id} ELSE @]
       IN Step(r, IF Attached(s1) THEN HandleModify(s1, h) ELSE s1)

\* canvas.remove by the user: object:removed
UserRemove(r) ==
  /\ Started(r)
  /\ replica[r].userLeft > 0
  /\ \E h \in replica[r].scene :
       LET s == Spend(St(r))
           s1 == [s EXCEPT !.scene = @ \ {h}]
       IN Step(r, IF Attached(s1) THEN HandleRemove(s1, h) ELSE s1)

\* canvas.clear by the user: canvas:cleared
UserClear(r) ==
  /\ Started(r)
  /\ replica[r].userLeft > 0
  /\ Attached(replica[r])
  /\ replica[r].scene # {}
  /\ LET s == Spend(St(r))
     IN Step(r, HandleClear([s EXCEPT !.scene = {}]))

\* the user changes the canvas size or the preset in the settings panel
UserSetSettings(r) ==
  /\ Started(r)
  /\ replica[r].userLeft > 0
  /\ LET s == Spend(St(r))
     IN \/ \E d \in Dims \ {s.dimensions} :
             Step(r, [SetDimensions(s, d) EXCEPT !.remoteSettings = @ \ {"dimensions"}])
        \/ \E p \in Presets \ {s.preset} :
             Step(r, [SetPreset(s, p) EXCEPT !.remoteSettings = @ \ {"preset"}])

TimerFire(r) ==
  /\ replica[r].timers # << >>
  /\ Step(r, RunTimer(St(r)))

\* the 300 ms wait ends; the zero-delay timers set meanwhile were due first
DebounceFire(r) ==
  /\ replica[r].debounced # NoHandle
  /\ replica[r].timers = << >>
  /\ LET s == St(r)
     IN \E u \in Uuid(s.objs[s.debounced].id = None) :
          Step(r, RunDebounced(s, u))

PatternUrlSettles(r) ==
  \E i \in 1..Len(replica[r].tasks) : \E ok \in BOOLEAN :
    /\ replica[r].tasks[i].kind = "patternUrl"
    /\ FreeHandles(replica[r]) # {}
    /\ Step(r, PatternUrlDone(St(r), i, ok))

ImageLoadSettles(r) ==
  \E i \in 1..Len(replica[r].tasks) : \E ok \in BOOLEAN :
    /\ replica[r].tasks[i].kind = "loadImage"
    /\ FreeHandles(replica[r]) # {}
    /\ Step(r, ImageLoadDone(St(r), i, ok))

EnlivenSettles(r) ==
  \E i \in 1..Len(replica[r].tasks) :
    /\ replica[r].tasks[i].kind = "enliven"
    /\ FreeHandles(replica[r]) # {}
    /\ Step(r, EnlivenDone(St(r), i))

-----------------------------------------------------------------------------
(* Other participants                                                      *)

SetTx(id, rec) == [kind |-> "set", id |-> id, rec |-> rec,
                   dimensions |-> None, preset |-> None]
DelTx(id) == [kind |-> "delete", id |-> id,
              rec |-> [id |-> None, left |-> 0, fill |-> AbsentFill],
              dimensions |-> None, preset |-> None]
SettingsTx(d, p) == [kind |-> "settings", id |-> None,
                     rec |-> [id |-> None, left |-> 0, fill |-> AbsentFill],
                     dimensions |-> d, preset |-> p]

\* What a peer's updateYjsObject, deleteYjsObject and updateYjsCanvasSettings
\* put into the shared document.
RemoteTxs ==
  {SetTx("a", ToRecord([left |-> 1, fill |-> f], "a")) : f \in UserFills}
  \cup {SetTx("b", ToRecord([left |-> 1, fill |-> Color("red")], "b"))}
  \cup {DelTx(id) : id \in Ids}
  \cup {SettingsTx("d1", None), SettingsTx(None, "p1")}

\* the provider applies the next remote transaction to this replica's copy
\* of the document; Yjs calls the observers of the maps it changed
DeliverTx(s, tx) ==
  CASE tx.kind = "set" ->
         LET action == IF Has(s.objectsMap, tx.id) THEN "update" ELSE "add"
             s1 == [s EXCEPT !.objectsMap = Put(@, tx.id, tx.rec)]
         IN IF Attached(s1)
            THEN ObjectObserver(s1, REMOTE_ORIGIN, <<[id |-> tx.id, action |-> action]>>)
            ELSE s1
    [] tx.kind = "delete" ->
         IF ~Has(s.objectsMap, tx.id) THEN s
         ELSE LET s1 == [s EXCEPT !.objectsMap = Del(@, tx.id)]
              IN IF Attached(s1)
                 THEN ObjectObserver(s1, REMOTE_ORIGIN,
                                     <<[id |-> tx.id, action |-> "delete"]>>)
                 ELSE s1
    [] OTHER ->
         LET s1 == [s EXCEPT !.canvasMap =
                      [dimensions |-> IF tx.dimensions # None THEN tx.dimensions
                                      ELSE @.dimensions,
                       preset |-> IF tx.preset # None THEN tx.preset ELSE @.preset]]
             keys == {k \in {"dimensions", "preset"} :
                        \/ k = "dimensions" /\ tx.dimensions # None
                        \/ k = "preset" /\ tx.preset # None}
         IN IF Attached(s1) THEN CanvasSettingsObserver(s1, REMOTE_ORIGIN, keys)
            ELSE s1

\* one remote transaction reaches every replica of RS
RemoteDeliver(RS) ==
  /\ remoteLeft > 0
  /\ \A r \in RS : Started(r) /\ Room(replica[r])
  /\ \E tx \in RemoteTxs :
       replica' = [r \in Replicas |->
                     IF r \in RS
                     THEN Collect(DeliverTx([St(r) EXCEPT !.last.tx = tx], tx))
                     ELSE replica[r]]
  /\ remoteLeft' = remoteLeft - 1

-----------------------------------------------------------------------------
(* Specifications                                                          *)

ReplicaNext(r) ==
  \/ StartInit(r)
  \/ LoadFinish(r)
  \/ RunEffects(r)
  \/ UserAdd(r)
  \/ UserDrawPath(r)
  \/ UserModify(r)
  \/ UserRemove(r)
  \/ UserClear(r)
  \/ UserSetSettings(r)
  \/ TimerFire(r)
  \/ DebounceFire(r)
  \/ PatternUrlSettles(r)
  \/ ImageLoadSettles(r)
  \/ EnlivenSettles(r)

\* one replica and its peers
Next == RemoteDeliver({"r1"}) \/ ReplicaNext("r1")

Spec == Init /\ [][Next]_vars

\* two replicas that receive the same remote transactions
NextPair == RemoteDeliver(Replicas) \/ \E r \in Replicas : ReplicaNext(r)

SpecPair == InitPair /\ [][NextPair]_vars

\* The event loop runs every due timer; fetch and image decoding settle;
\* loadFromJSON settles and React commits every render it scheduled.
Fairness ==
  /\ WF_vars(TimerFire("r1"))
  /\ WF_vars(PatternUrlSettles("r1"))
  /\ WF_vars(ImageLoadSettles("r1"))
  /\ WF_vars(LoadFinish("r1"))
  /\ WF_vars(RunEffects("r1"))

InitLive ==
  /\ \E doc \in InitDocs : \E drawn \in BOOLEAN :
       replica = [r \in Replicas |->
                    InitReplica(MaxLiveUser, doc.table, doc.canvasMap, drawn)]
  /\ remoteLeft = MaxLiveRemote

SpecLive == InitLive /\ [][Next]_vars /\ Fairness

-----------------------------------------------------------------------------
(* Properties                                                              *)

R1 == replica["r1"]
R2 == replica["r2"]

SceneIds(s) == {s.objs[h].id : h \in s.scene} \ {None}

\* C1 (No-echo): the objectObserver call that a LOCAL_ORIGIN transaction of
\* updateYjsObject, deleteYjsObject or handleClear triggers returns without
\* changing the scene, the identity registry, the in-flight set, the flags
\* or the pending timers and promises.
C1_NoEcho == ~R1.last.echo

\* a task in which the observer was called for this replica's own write
C1_Witness ==
  /\ R1.last.observed
  /\ R1.last.writes # << >>
  /\ R1.isLocalChange

\* the in-flight set is empty, the flags are clear and nothing is pending
Settled(s) ==
  /\ s.cInitialized
  /\ s.processingQueue = {}
  /\ ~s.isLocalChange /\ ~s.isLoadingInitialState /\ ~s.isYjsSettingsUpdate
  /\ s.timers = << >> /\ s.tasks = << >>
  /\ s.debounced = NoHandle
  /\ ~RenderPending(s)

\* every scene object that has an id serializes to the record the objects
\* table stores under that id
Mirrors(s) ==
  \A h \in s.scene :
    s.objs[h].id # None
      => /\ Has(s.objectsMap, s.objs[h].id)
         /\ ToRecord(s.objs[h], s.objs[h].id) = s.objectsMap[s.objs[h].id]

\* C2 (Convergence): two replicas that received the same remote changes and
\* hold the same objects table have, once both are settled, the same set of
\* scene object ids, and every scene object serializes to its table record.
C2_Convergence ==
  (Settled(R1) /\ Settled(R2) /\ R1.objectsMap = R2.objectsMap)
    => /\ SceneIds(R1) = SceneIds(R2)
       /\ Mirrors(R1)
       /\ Mirrors(R2)

\* C3 (Idempotence): at no reachable state does the scene hold two objects
\* with the same id.
C3_NoDuplicateIds ==
  \A h1, h2 \in R1.scene :
    (h1 # h2 /\ R1.objs[h1].id # None) => R1.objs[h1].id # R1.objs[h2].id

\* C4 (Debounce coalescing): once the debounced call has been made, every id
\* whose object:modified events handleModify took has been written; no id
\* is left with its modification unwritten.
C4_DebounceWrites == (R1.debounced = NoHandle) => (R1.modPending = {})

Applies(s) == {s.last.applies[i] : i \in DOMAIN s.last.applies}
WrittenIds(s) == {s.last.writes[i].id : i \in DOMAIN s.last.writes}

\* C5 (Pattern fill on an existing object): when applyObjectUpdate patches
\* a registered object from a record with a pattern fill whose texture
\* resolved, the object's fill is the materialized Pattern of that name and
\* tint, and the task writes no LOCAL_ORIGIN record for that id.
C5_PatternOnExisting ==
  \A a \in Applies(R1) :
    (a.path = "patch" /\ a.resolved = "ok")
      => /\ R1.objs[a.h].fill = a.fill
         /\ a.id \notin WrittenIds(R1)

\* C6 (No bounce): a task in which the applier patched or materialized a
\* scene object from a remote record writes no LOCAL_ORIGIN record for that
\* id.
C6_NoBounce == \A a \in Applies(R1) : a.id \notin WrittenIds(R1)

\* C7 (Round-trip): when the applier patches or materializes an object from
\* the record updateYjsObject writes for a flat color, a Gradient or a
\* Pattern (texture resolved), the scene object has the record's id and a
\* fill of the same kind and content.
C7_RoundTrip ==
  \A a \in Applies(R1) : \A f \in UserFills :
    (a.resolved # "failed" /\ a.rec.fill = EncodeFill(f))
      => /\ R1.objs[a.h].id = a.rec.id
         /\ R1.objs[a.h].fill = f

\* a remote transaction that set only the dimensions key was delivered
DimensionsOnlyDelivery ==
  /\ remoteLeft' # remoteLeft
  /\ replica'["r1"].last.tx.kind = "settings"
  /\ replica'["r1"].last.tx.preset = None

\* C8 (Partial remote settings): a remote transaction that changes only the
\* dimensions key leaves the local preset (and the last preset written)
\* unchanged; when canvasSettingsObserver is attached, not suppressed and
\* was attached with the current dimensions, the local dimensions become
\* the replicated ones.
C8_PartialSettings ==
  [][DimensionsOnlyDelivery
       => /\ replica'["r1"].preset = R1.preset
          /\ replica'["r1"].prevPresetRef = R1.prevPresetRef
          /\ (Attached(R1) /\ ~R1.isLocalChange /\ R1.dimensions = R1.cDimensions)
               => replica'["r1"].dimensions = replica'["r1"].last.tx.dimensions]_vars

\* the observer applied the dimensions of such a transaction while the
\* replicated preset differs from the local one
C8_Witness ==
  /\ R1.last.tx.kind = "settings" /\ R1.last.tx.preset = None
  /\ R1.cInitialized
  /\ R1.timers # << >> /\ R1.timers[Len(R1.timers)] = SettingsFlagTimer
  /\ R1.isYjsSettingsUpdate /\ R1.dimsDirty
  /\ R1.dimensions = R1.last.tx.dimensions /\ R1.dimensions # R1.cDimensions
  /\ R1.canvasMap.preset # None /\ R1.canvasMap.preset # R1.preset

\* C9 (Remote deletion): after objectObserver handled the remote deletion
\* of an id, the scene holds no object with that id and the identity
\* registry does not map it.
C9_RemoteDeletion ==
  (R1.last.tx.kind = "delete" /\ R1.last.tx.id \in R1.last.handled)
    => /\ R1.last.tx.id \notin SceneIds(R1)
       /\ ~Has(R1.fabricObjectsRef, R1.last.tx.id)

\* C10 (Bootstrap before steady state): while the initial load has not run
\* to completion, the observers and the scene event handlers are not
\* attached, and no task writes to the document, applies a record, or runs
\* an observer.
C10_BootstrapFirst ==
  (R1.loadPhase # "done" \/ R1.isLoadingInitialState)
    => /\ ~R1.cInitialized /\ ~R1.initialized
       /\ R1.last.writes = << >> /\ R1.last.applies = << >>
       /\ ~R1.last.observed /\ R1.last.handled = {}
       /\ R1.last.settingsKeys = {}
       /\ R1.processingQueue = {} /\ ~R1.isLocalChange

\* a remote record arrived during the load and no observer saw it
C10_Witness ==
  /\ R1.loadPhase = "loading" /\ R1.isLoadingInitialState
  /\ R1.last.tx.kind = "set"
  /\ Has(R1.objectsMap, R1.last.tx.id)
  /\ R1.last.tx.id \notin SceneIds(R1)

\* the init effect starts loadInitialState
BootstrapStarts ==
  R1.loadPhase = "idle" /\ replica'["r1"].loadPhase # "idle"

\* C11 (Bootstrap seeding): when the init effect finds the objects table
\* empty, the objects already in the local scene stay in the scene.
C11_SeedKept ==
  [][(BootstrapStarts /\ R1.objectsMap = EmptyMap)
       => replica'["r1"].scene = R1.scene]_vars

\* C12 (Bootstrap settings): once bootstrap has completed and the effects
\* of that render have run, the settings map holds dimensions or a preset:
\* the replicated ones, or else the local defaults.
C12_DefaultsProjected ==
  (R1.cInitialized /\ ~RenderPending(R1))
    => (R1.canvasMap.dimensions # None \/ R1.canvasMap.preset # None)

\* C13 (In-flight exclusion): no task writes or deletes the table entry of
\* an id that was in the in-flight set when the task started.
C13_InFlightExclusion ==
  [][\A id \in R1.processingQueue : id \notin WrittenIds(replica'["r1"])]_vars

\* C14 (In-flight release ordering): when a task materializes a scene
\* object from a remote record, the record's id was in the in-flight set
\* when the task started, or the observer put it there in this task.
C14_ReleaseAfterSettle ==
  [][\A a \in Applies(replica'["r1"]) :
       a.path = "materialize"
         => (a.id \in R1.processingQueue \/ a.id \in replica'["r1"].last.handled)]_vars

SettingsKeys(s) == s.last.settingsKeys

\* C15 (Settings dirty-checking): a key is set in the settings transaction
\* only if its value differed from the last-known value (which the call
\* then updates).
C15_OnlyDirtyKeys ==
  [][/\ "dimensions" \in SettingsKeys(replica'["r1"])
          => replica'["r1"].prevDimensionsRef # R1.prevDimensionsRef
     /\ "preset" \in SettingsKeys(replica'["r1"])
          => replica'["r1"].prevPresetRef # R1.prevPresetRef]_vars

\* C16 (No settings re-broadcast): the settings sync effect of the commit
\* that renders a value canvasSettingsObserver applied does not write that
\* key to the settings map.
C16_NoRebroadcast == R1.last.fromRemote \cap SettingsKeys(R1) = {}

\* a task of the user on a replica whose handlers are attached
UserTask == Attached(R1) /\ replica'["r1"].userLeft < R1.userLeft

\* C17 (Creation projects immediately): the task in which the user adds an
\* object to the scene writes that object's record to the objects table.
C17_CreationWritten ==
  [][UserTask
       => \A h \in replica'["r1"].scene \ R1.scene :
            \E i \in DOMAIN replica'["r1"].last.writes :
              LET w == replica'["r1"].last.writes[i]
                  o == replica'["r1"].objs[h]
              IN w.id = o.id /\ w.rec = ToRecord(o, o.id)]_vars

\* C18 (Local removal propagates): the task in which the user removes an
\* object that has an id from the scene leaves no table entry and no
\* registry entry for that id.
C18_RemovalDeletes ==
  [][UserTask
       => \A h \in R1.scene \ replica'["r1"].scene :
            R1.objs[h].id # None
              => /\ ~Has(replica'["r1"].objectsMap, R1.objs[h].id)
                 /\ ~Has(replica'["r1"].fabricObjectsRef, R1.objs[h].id)]_vars

\* the pending texture resolution i of objectObserver ends in this task
ResolutionEnds(i) ==
  /\ R1.tasks[i].kind \in {"patternUrl", "loadImage"}
  /\ replica'["r1"].tasks = RemoveAt(R1.tasks, i)

\* C19 (Pattern resolution failure): whenever the texture resolution of a
\* remote record ends, with or without a texture, the task applies the
\* record's remaining properties to the scene object and schedules the
\* release of the id.
C19_DegradesGracefully ==
  [][\A i \in DOMAIN R1.tasks :
       ResolutionEnds(i)
         => /\ \E a \in Applies(replica'["r1"]) :
                 /\ a.id = R1.tasks[i].id
                 /\ replica'["r1"].objs[a.h].left = R1.tasks[i].objData.left
            /\ \E j \in DOMAIN replica'["r1"].timers :
                 replica'["r1"].timers[j] = ReleaseTimer(R1.tasks[i].id)]_vars

\* C20 (Guards always release): every id in the in-flight set is eventually
\* out of it, and isLocalChange and isYjsSettingsUpdate, once true, are
\* eventually false again.
C20_GuardsRelease ==
  /\ \A id \in Ids : (id \in R1.processingQueue) ~> (id \notin R1.processingQueue)
  /\ R1.isLocalChange ~> ~R1.isLocalChange
  /\ R1.isYjsSettingsUpdate ~> ~R1.isYjsSettingsUpdate

\* the guards are held across an asynchronous texture resolution
C20_Witness ==
  /\ R1.processingQueue # {}
  /\ R1.isLocalChange
  /\ \E i \in DOMAIN R1.tasks : R1.tasks[i].kind = "loadImage"
  /\ R1.timers = << >>

\* the object whose debounced projection is pending
PendingId(s) == s.objs[s.debounced].id

\* C21 (Debounce is per id): a pending debounced projection of object X is
\* replaced only by a later object:modified of the same id X; an event for
\* another id Y leaves the projection of X pending.
C21_DebouncePerId ==
  [][(/\ R1.debounced # NoHandle
      /\ replica'["r1"].debounced # NoHandle
      /\ PendingId(R1) # None
      /\ PendingId(replica'["r1"]) # None)
       => PendingId(replica'["r1"]) = PendingId(R1)]_vars

====
